---- MODULE Spec2Model ----
(***************************************************************************)
(* Model of the WHERE-clause evaluator of src/src/executor/filter.rs:      *)
(* Filter / BlendedFilter, the Parsed / ParsedList value model, parse_expr,*)
(* parse_in_expr, check_expr and check_blended_expr.                       *)
(*                                                                         *)
(* An evaluation is a pure function of (storage, scope chain, expression); *)
(* its observable effects on the Store (parameter fetch, SELECT execution, *)
(* rows pulled from the lazy row iterator) and the order in which nodes    *)
(* are visited are recorded in a log, so that claims about evaluation      *)
(* order, laziness and error propagation are statements about the log.     *)
(***************************************************************************)
EXTENDS Integers, Sequences, FiniteSets, TLC

VARIABLES
    storage,       \* Filter.storage: statement name -> what the Store yields
    where_clause,  \* Filter.where_clause: None or a ConditionExpression
    context,       \* Filter.context: optional outer scope chain (<<>> = None)
    rows,          \* the (table, columns, row) frames callers pass to check
    chains,        \* the BlendContext chains callers pass
    arg,           \* the arguments of the last entry-point call
    result,        \* the Result<bool> the last call returned
    log            \* the events of the last call, in order

vars == <<storage, where_clause, context, rows, chains, arg, result, log>>

(***************************************************************************)
(* Bounds of the model.                                                    *)
(***************************************************************************)
MaxInt == 2    \* integers 1..MaxInt appear as literals and stored values
MaxRows == 2   \* a nested SELECT yields at most MaxRows result rows
MaxList == 2   \* a literal list holds at most MaxList literals
MaxJoin == 2   \* a BlendContext chain holds at most MaxJoin frames

None == [kind |-> "None"]

(***************************************************************************)
(* Values (crate::data::Value, typed) and Literals (nom_sql::Literal,      *)
(* untyped syntax).  The two are distinct representations: a Value is      *)
(* never structurally equal to a Literal.                                  *)
(***************************************************************************)
I64(n) == [t |-> "I64", n |-> n]
Str(n) == [t |-> "Str", n |-> n]
Integer(n) == [t |-> "Integer", n |-> n]
String(n) == [t |-> "String", n |-> n]

Ints == 1..MaxInt
Values == {I64(n) : n \in Ints} \cup {Str(1)}
Literals == {Integer(n) : n \in Ints} \cup {String(1)}

\* impl PartialEq<Literal> for Value: scalar equality of the storage types.
ValueEqLiteral(v, l) ==
    \/ v.t = "I64" /\ l.t = "Integer" /\ v.n = l.n
    \/ v.t = "Str" /\ l.t = "String" /\ v.n = l.n

(***************************************************************************)
(* Parsed<'a>: LiteralRef(&Literal) | ValueRef(&Value) | Value(Value).     *)
(***************************************************************************)
LiteralRef(l) == [tag |-> "LiteralRef", x |-> l]
ValueRef(v) == [tag |-> "ValueRef", x |-> v]
OwnedValue(v) == [tag |-> "Value", x |-> v]

ParsedSet ==
    {LiteralRef(l) : l \in Literals}
        \cup {ValueRef(v) : v \in Values}
        \cup {OwnedValue(v) : v \in Values}

\* Parsed equality in which a literal never equals an owned value.
ParsedEqOwnedLiteral(self, other) ==
    CASE self.tag = "LiteralRef" /\ other.tag = "LiteralRef" -> self.x = other.x
      [] self.tag = "LiteralRef" /\ other.tag = "ValueRef" -> ValueEqLiteral(other.x, self.x)
      [] self.tag = "LiteralRef" /\ other.tag = "Value" -> FALSE
      [] self.tag = "Value" /\ other.tag = "LiteralRef" -> ValueEqLiteral(self.x, other.x)
      [] self.tag = "Value" /\ other.tag = "ValueRef" -> self.x = other.x
      [] self.tag = "Value" /\ other.tag = "Value" -> self.x = other.x
      [] self.tag = "ValueRef" /\ other.tag = "LiteralRef" -> ValueEqLiteral(self.x, other.x)
      [] self.tag = "ValueRef" /\ other.tag = "ValueRef" -> self.x = other.x
      [] self.tag = "ValueRef" /\ other.tag = "Value" -> other.x = self.x

\* impl PartialEq for Parsed: the nine arms of the match, in source order.
ParsedEq(self, other) ==
    CASE self.tag = "LiteralRef" /\ other.tag = "LiteralRef" -> self.x = other.x
      [] self.tag = "LiteralRef" /\ other.tag = "ValueRef" -> ValueEqLiteral(other.x, self.x)
      [] self.tag = "LiteralRef" /\ other.tag = "Value" -> ValueEqLiteral(other.x, self.x)
      [] self.tag = "Value" /\ other.tag = "LiteralRef" -> ValueEqLiteral(self.x, other.x)
      [] self.tag = "Value" /\ other.tag = "ValueRef" -> self.x = other.x
      [] self.tag = "Value" /\ other.tag = "Value" -> self.x = other.x
      [] self.tag = "ValueRef" /\ other.tag = "LiteralRef" -> ValueEqLiteral(self.x, other.x)
      [] self.tag = "ValueRef" /\ other.tag = "ValueRef" -> self.x = other.x
      [] self.tag = "ValueRef" /\ other.tag = "Value" -> other.x = self.x

(***************************************************************************)
(* Errors.  The FilterError variants carry no data; an error coming from   *)
(* the Store or a Row carries the statement and the row position it arose  *)
(* at, so that "the error of that row" is distinguishable from any other.  *)
(***************************************************************************)
Error(kind) == [kind |-> kind, stmt |-> "", idx |-> 0]
StoreError(kind, stmt, idx) == [kind |-> kind, stmt |-> stmt, idx |-> idx]
NoError == Error("")

NestedSelectRowNotFound == Error("NestedSelectRowNotFound")
UnreachableConditionBase == Error("UnreachableConditionBase")
Unimplemented == Error("Unimplemented")
FieldNotFound == Error("FieldNotFound")

(***************************************************************************)
(* Events of one evaluation.  "check" / "parse" / "parse_in": the function *)
(* is entered for the node at `path`; "params" / "select": the Store is    *)
(* asked for the parameters of / to execute `stmt` (with outer scope       *)
(* `ctx`); "row": row number `idx` is pulled from the lazy row iterator;   *)
(* "fail": an Err value is created.                                        *)
(***************************************************************************)
Event(op, path, stmt, idx, ctx, err) ==
    [op |-> op, path |-> path, stmt |-> stmt, idx |-> idx, ctx |-> ctx, err |-> err]
CheckEvent(path, ctx) == Event("check", path, "", 0, ctx, NoError)
ParseEvent(path) == Event("parse", path, "", 0, <<>>, NoError)
ParseInEvent(path) == Event("parse_in", path, "", 0, <<>>, NoError)
ParamsEvent(path, stmt) == Event("params", path, stmt, 0, <<>>, NoError)
SelectEvent(path, stmt, ctx) == Event("select", path, stmt, 0, ctx, NoError)
RowEvent(path, stmt, idx) == Event("row", path, stmt, idx, <<>>, NoError)
FailEvent(path, err) == Event("fail", path, "", 0, <<>>, err)

(***************************************************************************)
(* Result<T> together with the events produced while computing it.         *)
(***************************************************************************)
Ok(v, evs) == [ok |-> TRUE, v |-> v, e |-> NoError, log |-> evs]
\* An Err created at `path` after the events `evs`.
Err(e, path, evs) == [ok |-> FALSE, v |-> FALSE, e |-> e, log |-> Append(evs, FailEvent(path, e))]
\* The `?` operator: the Err of `r` returned unchanged, after the events `evs`.
Propagate(evs, r) == [ok |-> FALSE, v |-> FALSE, e |-> r.e, log |-> evs \o r.log]

(***************************************************************************)
(* FilterContext: a backward-linked chain of (table, columns, row) frames, *)
(* modelled as the sequence of its frames, innermost first; <<>> is the    *)
(* absent Option.                                                          *)
(***************************************************************************)
Frame(table, columns, row) == [table |-> table, columns |-> columns, row |-> row]

\* FilterContext::new(table, columns, row, next)
FilterContextNew(table, columns, row, next) == <<Frame(table, columns, row)>> \o next

Min(S) == CHOOSE i \in S : \A j \in S : i <= j
\* The positions of `column` in the frame's column list.
Positions(frame, column) == {i \in 1..Len(frame.columns) : frame.columns[i] = column}

RECURSIVE GetValue(_, _)
\* FilterContext::get_value(column): scan this frame's columns, else the parent.
GetValue(ctx, column) ==
    IF ctx = <<>> THEN [found |-> FALSE, v |-> I64(0)]
    ELSE IF Positions(Head(ctx), column) # {}
         THEN [found |-> TRUE, v |-> Head(ctx).row[Min(Positions(Head(ctx), column))]]
         ELSE GetValue(Tail(ctx), column)

(***************************************************************************)
(* The Store.  storage[stmt] is what executing the nested SELECT `stmt`    *)
(* yields: a failure of fetch_select_params, a failure of select, or a     *)
(* lazy sequence of items, each a Row (a sequence of Values) or an error.  *)
(***************************************************************************)
ParamsErr == [t |-> "ParamsErr", rows |-> <<>>]
SelectErr == [t |-> "SelectErr", rows |-> <<>>]
RowsOf(items) == [t |-> "Rows", rows |-> items]
RowItem(row) == [t |-> "Row", row |-> row]
ErrItem == [t |-> "Err", row |-> <<>>]

\* Row::take_first_value: the first column, an error on a row without columns.
TakeFirstValue(row) ==
    IF row = <<>> THEN [ok |-> FALSE, v |-> I64(0)] ELSE [ok |-> TRUE, v |-> row[1]]

\* fetch_select_params(storage, statement)? ; select(storage, statement, &params, Some(ctx))?
\* after the events evs: the rows of the statement, or the Err of the call that failed.
OpenSelect(store, ctx, stmt, path, evs) ==
    CASE store[stmt].t = "ParamsErr" ->
            Err(StoreError("ParamsError", stmt, 0), path, Append(evs, ParamsEvent(path, stmt)))
      [] store[stmt].t = "SelectErr" ->
            Err(StoreError("SelectError", stmt, 0), path,
                evs \o <<ParamsEvent(path, stmt), SelectEvent(path, stmt, ctx)>>)
      [] OTHER ->
            Ok(store[stmt].rows, evs \o <<ParamsEvent(path, stmt), SelectEvent(path, stmt, ctx)>>)

\* .map(|row| row?.take_first_value()) applied to the item pulled at position idx.
FirstValueOf(item, stmt, idx, path, evs) ==
    IF item.t = "Err" THEN Err(StoreError("RowError", stmt, idx), path, evs)
    ELSE IF TakeFirstValue(item.row).ok THEN Ok(TakeFirstValue(item.row).v, evs)
    ELSE Err(StoreError("EmptyRow", stmt, idx), path, evs)

(***************************************************************************)
(* ParsedList<'a, T>.                                                      *)
(***************************************************************************)
ListLiteralRef(literals) == [tag |-> "LiteralRef", literals |-> literals]
ListValue(stmt, ctx) == [tag |-> "Value", statement |-> stmt, filter_context |-> ctx]
ListParsed(parsed) == [tag |-> "Parsed", parsed |-> parsed]

RECURSIVE ScanRows(_, _, _, _, _, _)

\* A scan that goes on after a row that fails instead of returning its error.
ScanStepSkipFailures(self, items, stmt, idx, path, value) ==
    IF value.ok /\ ParsedEq(OwnedValue(value.v), self) THEN Ok(TRUE, value.log)
    ELSE ScanRows(self, items, stmt, idx + 1, path, value.log)

\* The closure of filter_map on `value`, the mapped item pulled at position idx:
\* Some(Err) ends the scan, a match ends it with Ok(()), anything else goes on.
ScanStep(self, items, stmt, idx, path, value) ==
    IF ~value.ok THEN value
    ELSE IF ParsedEq(OwnedValue(value.v), self) THEN Ok(TRUE, value.log)
    ELSE ScanRows(self, items, stmt, idx + 1, path, value.log)

\* The filter_map(...).next() loop of exists_in over the rows from position idx on.
ScanRows(self, items, stmt, idx, path, evs) ==
    IF idx > Len(items) THEN Ok(FALSE, evs)
    ELSE ScanStep(self, items, stmt, idx, path,
                  FirstValueOf(items[idx], stmt, idx, path, Append(evs, RowEvent(path, stmt, idx))))

\* The scan of exists_in over `opened`, what OpenSelect returned.
ScanOpened(self, stmt, path, opened) ==
    IF ~opened.ok THEN opened ELSE ScanRows(self, opened.v, stmt, 1, path, opened.log)

\* exists_in testing the literals after the first only.
ExistsInSkipFirst(store, self, list, path, evs) ==
    CASE list.tag = "Parsed" -> Ok(ParsedEq(list.parsed, self), evs)
      [] list.tag = "LiteralRef" ->
            Ok(\E i \in 2..Len(list.literals) : ParsedEq(LiteralRef(list.literals[i]), self), evs)
      [] list.tag = "Value" ->
            ScanOpened(self, list.statement, path,
                       OpenSelect(store, list.filter_context, list.statement, path, evs))

\* Parsed::exists_in(&self, list)
ExistsIn(store, self, list, path, evs) ==
    CASE list.tag = "Parsed" -> Ok(ParsedEq(list.parsed, self), evs)
      [] list.tag = "LiteralRef" ->
            Ok(\E i \in 1..Len(list.literals) : ParsedEq(LiteralRef(list.literals[i]), self), evs)
      [] list.tag = "Value" ->
            ScanOpened(self, list.statement, path,
                       OpenSelect(store, list.filter_context, list.statement, path, evs))

(***************************************************************************)
(* ConditionExpression / ConditionBase / ConditionTree (nom_sql).          *)
(***************************************************************************)
Field(column) == [b |-> "Field", column |-> column]
Literal(literal) == [b |-> "Literal", literal |-> literal]
LiteralList(literals) == [b |-> "LiteralList", literals |-> literals]
NestedSelect(stmt) == [b |-> "NestedSelect", statement |-> stmt]

Base(base) == [kind |-> "Base", base |-> base]
Arithmetic == [kind |-> "Arithmetic"]
ComparisonOp(op, l, r) == [kind |-> "ComparisonOp", operator |-> op, left |-> l, right |-> r]
LogicalOp(op, l, r) == [kind |-> "LogicalOp", operator |-> op, left |-> l, right |-> r]
NegationOp(e) == [kind |-> "NegationOp", inner |-> e]
Bracketed(e) == [kind |-> "Bracketed", inner |-> e]

\* The operators check_tree evaluates, and two of those it does not.
Operators == {"Equal", "NotEqual", "And", "Or", "In", "Less", "Like"}

\* filter_context.get_value(&column).map(|value| Parsed::ValueRef(value)), got
\* being what get_value found.
ParseField(got, path, evs) ==
    IF got.found THEN Ok(ValueRef(got.v), evs) ELSE Err(FieldNotFound, path, evs)

\* Ok(Parsed::Value(value)) for `value`, the first mapped row or its error.
ParseFirstValue(value) ==
    IF ~value.ok THEN value ELSE Ok(OwnedValue(value.v), value.log)

\* The NestedSelect arm requiring the SELECT to yield exactly one row.
ParseSelectSingleRow(opened, stmt, path) ==
    IF ~opened.ok THEN opened
    ELSE IF Len(opened.v) # 1 THEN Err(NestedSelectRowNotFound, path, opened.log)
    ELSE ParseFirstValue(FirstValueOf(opened.v[1], stmt, 1, path,
                                      Append(opened.log, RowEvent(path, stmt, 1))))

\* The NestedSelect arm of parse_base over `opened`, what OpenSelect returned:
\* .map(..).next().ok_or(FilterError::NestedSelectRowNotFound)??
ParseSelect(opened, stmt, path) ==
    IF ~opened.ok THEN opened
    ELSE IF opened.v = <<>> THEN Err(NestedSelectRowNotFound, path, opened.log)
    ELSE ParseFirstValue(FirstValueOf(opened.v[1], stmt, 1, path,
                                      Append(opened.log, RowEvent(path, stmt, 1))))

\* parse_expr::parse_base
ParseBase(store, ctx, base, path, evs) ==
    CASE base.b = "Field" -> ParseField(GetValue(ctx, base.column), path, evs)
      [] base.b = "Literal" -> Ok(LiteralRef(base.literal), evs)
      [] base.b = "NestedSelect" ->
            ParseSelect(OpenSelect(store, ctx, base.statement, path, evs), base.statement, path)
      [] base.b = "LiteralList" -> Err(UnreachableConditionBase, path, evs)

\* parse_expr(storage, filter_context, expr)
ParseExpr(store, ctx, expr, path) ==
    IF expr.kind = "Base" THEN ParseBase(store, ctx, expr.base, path, <<ParseEvent(path)>>)
    ELSE Err(Unimplemented, path, <<ParseEvent(path)>>)

\* filter_context.get_value(&column).map(|value| ParsedList::Parsed(Parsed::ValueRef(value)))
ParseInField(got, path, evs) ==
    IF got.found THEN Ok(ListParsed(ValueRef(got.v)), evs) ELSE Err(FieldNotFound, path, evs)

\* parse_in_expr::parse_base
ParseInBase(ctx, base, path, evs) ==
    CASE base.b = "Field" -> ParseInField(GetValue(ctx, base.column), path, evs)
      [] base.b = "Literal" -> Ok(ListParsed(LiteralRef(base.literal)), evs)
      [] base.b = "LiteralList" -> Ok(ListLiteralRef(base.literals), evs)
      [] base.b = "NestedSelect" -> Ok(ListValue(base.statement, ctx), evs)

\* parse_in_expr(storage, filter_context, expr)
ParseInExpr(store, ctx, expr, path) ==
    IF expr.kind = "Base" THEN ParseInBase(ctx, expr.base, path, <<ParseInEvent(path)>>)
    ELSE Err(Unimplemented, path, <<ParseInEvent(path)>>)

\* Ok((f(&tree.left)?, g(&tree.right)?)), where l and r are what f(&tree.left)
\* and g(&tree.right) return when they are called: g(&tree.right) is called,
\* and its events happen, only if l is Ok.
Zip(l, r) ==
    IF ~l.ok THEN l
    ELSE IF ~r.ok THEN Propagate(l.log, r)
    ELSE Ok(<<l.v, r.v>>, l.log \o r.log)

\* Both operands evaluated before either result is looked at.
ZipBoth(l, r) ==
    IF ~l.ok THEN [l EXCEPT !.log = l.log \o r.log]
    ELSE IF ~r.ok THEN Propagate(l.log, r)
    ELSE Ok(<<l.v, r.v>>, l.log \o r.log)

\* zip_parse evaluating both operands before looking at either result.
ZipParseBoth(store, ctx, tree, path) ==
    ZipBoth(ParseExpr(store, ctx, tree.left, Append(path, "left")),
            ParseExpr(store, ctx, tree.right, Append(path, "right")))

\* zip_parse: Ok((parse(&tree.left)?, parse(&tree.right)?))
ZipParse(store, ctx, tree, path) ==
    Zip(ParseExpr(store, ctx, tree.left, Append(path, "left")),
        ParseExpr(store, ctx, tree.right, Append(path, "right")))

\* zip_in: Ok((parse(&tree.left)?, parse_in(&tree.right)?))
ZipIn(store, ctx, tree, path) ==
    Zip(ParseExpr(store, ctx, tree.left, Append(path, "left")),
        ParseInExpr(store, ctx, tree.right, Append(path, "right")))

\* zip_check: Ok((check(&tree.left)?, check(&tree.right)?)), l and r being what
\* the `check` closure returns for tree.left and tree.right.
ZipCheck(l, r) == Zip(l, r)

\* The arms of check_tree, z being what the arm's zip_* closure returned.
\* zip_parse().map(|(l, r)| l == r)
EqualArm(z) == IF z.ok THEN Ok(ParsedEq(z.v[1], z.v[2]), z.log) ELSE z
\* zip_parse().map(|(l, r)| l != r)
NotEqualArm(z) == IF z.ok THEN Ok(~ParsedEq(z.v[1], z.v[2]), z.log) ELSE z
\* zip_check().map(|(l, r)| l && r)
AndArm(z) == IF z.ok THEN Ok(z.v[1] /\ z.v[2], z.log) ELSE z
\* zip_check().map(|(l, r)| l || r)
OrArm(z) == IF z.ok THEN Ok(z.v[1] \/ z.v[2], z.log) ELSE z
\* zip_in().and_then(|(l, r)| l.exists_in(r))
InArm(store, z, path) ==
    IF z.ok THEN ExistsIn(store, z.v[1], z.v[2], Append(path, "right"), z.log) ELSE z

\* check_tree with And / Or short-circuiting on the left operand.
CheckTreeShortCircuit(store, ctx, tree, path, l, r) ==
    CASE tree.operator = "Equal" -> EqualArm(ZipParse(store, ctx, tree, path))
      [] tree.operator = "NotEqual" -> NotEqualArm(ZipParse(store, ctx, tree, path))
      [] tree.operator = "And" -> IF l.ok /\ ~l.v THEN l ELSE AndArm(ZipCheck(l, r))
      [] tree.operator = "Or" -> IF l.ok /\ l.v THEN l ELSE OrArm(ZipCheck(l, r))
      [] tree.operator = "In" -> InArm(store, ZipIn(store, ctx, tree, path), path)
      [] OTHER -> Err(Unimplemented, path, <<>>)

\* check_tree whose default arm answers false instead of failing.
CheckTreeDefaultFalse(store, ctx, tree, path, l, r) ==
    CASE tree.operator = "Equal" -> EqualArm(ZipParse(store, ctx, tree, path))
      [] tree.operator = "NotEqual" -> NotEqualArm(ZipParse(store, ctx, tree, path))
      [] tree.operator = "And" -> AndArm(ZipCheck(l, r))
      [] tree.operator = "Or" -> OrArm(ZipCheck(l, r))
      [] tree.operator = "In" -> InArm(store, ZipIn(store, ctx, tree, path), path)
      [] OTHER -> Ok(FALSE, <<>>)

\* check_tree: match tree.operator { ... }; l and r are what the `check`
\* closure returns for tree.left and tree.right (zip_check alone uses them).
CheckTree(store, ctx, tree, path, l, r) ==
    CASE tree.operator = "Equal" -> EqualArm(ZipParse(store, ctx, tree, path))
      [] tree.operator = "NotEqual" -> NotEqualArm(ZipParse(store, ctx, tree, path))
      [] tree.operator = "And" -> AndArm(ZipCheck(l, r))
      [] tree.operator = "Or" -> OrArm(ZipCheck(l, r))
      [] tree.operator = "In" -> InArm(store, ZipIn(store, ctx, tree, path), path)
      [] OTHER -> Err(Unimplemented, path, <<>>)

\* A negation that forgets to invert.
CheckNegationIdentity(r) == r

\* The NegationOp arm: check(expr).map(|b| !b), r being what check(expr) returns.
CheckNegation(r) == IF r.ok THEN Ok(~r.v, r.log) ELSE r

\* The call of check_expr for the node at `path` that returns r.
Entered(path, ctx, r) == [r EXCEPT !.log = <<CheckEvent(path, ctx)>> \o r.log]

RECURSIVE CheckExpr(_, _, _, _)
\* check_expr(storage, filter_context, expr)
CheckExpr(store, ctx, expr, path) ==
    Entered(path, ctx,
        CASE expr.kind \in {"ComparisonOp", "LogicalOp"} ->
                CheckTree(store, ctx, expr, path,
                          CheckExpr(store, ctx, expr.left, Append(path, "left")),
                          CheckExpr(store, ctx, expr.right, Append(path, "right")))
          [] expr.kind = "NegationOp" ->
                CheckNegation(CheckExpr(store, ctx, expr.inner, Append(path, "inner")))
          [] expr.kind = "Bracketed" -> CheckExpr(store, ctx, expr.inner, Append(path, "inner"))
          [] expr.kind \in {"Arithmetic", "Base"} -> Err(Unimplemented, path, <<>>))

\* FilterContext::new(table, &columns, &row, filter_context) for the first frame
\* of the BlendContext chain.
BlendFrame(blend_context, filter_context) ==
    FilterContextNew(Head(blend_context).table, Head(blend_context).columns,
                     Head(blend_context).row, filter_context)

RECURSIVE CheckBlendedExpr(_, _, _, _)
\* A fold that passes the old outer scope on instead of the frame just built.
CheckBlendedExprParentLost(store, filter_context, blend_context, expr) ==
    IF Tail(blend_context) # <<>>
    THEN CheckBlendedExpr(store, filter_context, Tail(blend_context), expr)
    ELSE CheckExpr(store, BlendFrame(blend_context, filter_context), expr, <<>>)

\* check_blended_expr(storage, filter_context, blend_context, expr); the
\* BlendContext chain is the sequence of its frames, `next` being the tail.
CheckBlendedExpr(store, filter_context, blend_context, expr) ==
    IF Tail(blend_context) # <<>>
    THEN CheckBlendedExpr(store, BlendFrame(blend_context, filter_context),
                          Tail(blend_context), expr)
    ELSE CheckExpr(store, BlendFrame(blend_context, filter_context), expr, <<>>)

(***************************************************************************)
(* The entry points.                                                       *)
(***************************************************************************)
\* Filter::check with the outer context searched before the row's frame.
FilterCheckResultOuterFirst(store, clause, outer, f) ==
    IF clause # None
    THEN CheckExpr(store, outer \o <<Frame(f.table, f.columns, f.row)>>, clause, <<>>)
    ELSE Ok(TRUE, <<>>)

\* Filter::check(table, columns, row)
FilterCheckResult(store, clause, outer, f) ==
    IF clause # None
    THEN CheckExpr(store, FilterContextNew(f.table, f.columns, f.row, outer), clause, <<>>)
    ELSE Ok(TRUE, <<>>)

\* Filter::check_blended(blend_context)
FilterCheckBlendedResult(store, clause, outer, bc) ==
    IF clause # None THEN CheckBlendedExpr(store, outer, bc, clause) ELSE Ok(TRUE, <<>>)

\* BlendedFilter::new(filter, context).check(table, columns, row)
BlendedFilterCheckResult(store, clause, next, blend_context, f) ==
    IF clause = None THEN Ok(TRUE, <<>>)
    ELSE IF blend_context # <<>>
         THEN CheckBlendedExpr(store, FilterContextNew(f.table, f.columns, f.row, next),
                               blend_context, clause)
    ELSE CheckExpr(store, FilterContextNew(f.table, f.columns, f.row, next), clause, <<>>)

NoCall == [kind |-> "none", frame |-> <<>>, blend |-> <<>>]
Call(kind, frame, blend) == [kind |-> kind, frame |-> frame, blend |-> blend]

\* The entry point called as `call` returns r.
Return(call, r) ==
    /\ arg' = call
    /\ result' = [ok |-> r.ok, v |-> r.v, e |-> r.e]
    /\ log' = r.log
    /\ UNCHANGED <<storage, where_clause, context, rows, chains>>

FilterCheck ==
    \E f \in rows :
        Return(Call("Filter::check", <<f>>, <<>>),
               FilterCheckResult(storage, where_clause, context, f))

FilterCheckBlended ==
    \E bc \in chains :
        Return(Call("Filter::check_blended", <<>>, bc),
               FilterCheckBlendedResult(storage, where_clause, context, bc))

BlendedFilterCheck ==
    \E f \in rows : \E bc \in chains \cup {<<>>} :
        Return(Call("BlendedFilter::check", <<f>>, bc),
               BlendedFilterCheckResult(storage, where_clause, context, bc, f))

Next == FilterCheck \/ FilterCheckBlended \/ BlendedFilterCheck

(***************************************************************************)
(* Initial states.  A Filter is constructed over a Store, an optional      *)
(* WHERE clause and an optional outer scope; the callers then pass rows    *)
(* and join chains.  Each family below draws these from the sets in which  *)
(* one group of behaviours happens; Init is their union.                   *)
(***************************************************************************)
Unset == [ok |-> TRUE, v |-> TRUE, e |-> NoError]

Lit(n) == Base(Literal(Integer(n)))
Col(c) == Base(Field(c))
Sel(s) == Base(NestedSelect(s))

\* Sequences over S of length at most n.
SeqsUpTo(S, n) == UNION {[1..k -> S] : k \in 0..n}

\* The frames of the families that are not about scoping: column "z" is in none.
RowFrame == Frame("t", <<"a", "b">>, <<I64(1), I64(2)>>)
OuterFrame == Frame("o", <<"a", "c">>, <<I64(2), I64(1)>>)
JoinFrame == Frame("j", <<"b">>, <<I64(1)>>)

\* Rows a nested SELECT can yield: no column, one column, or two columns.
SelectRows ==
    {<<>>} \cup {<<v>> : v \in Values} \cup {<<I64(1), Str(1)>>}
SelectItems == {RowItem(r) : r \in SelectRows} \cup {ErrItem}
StatementResults ==
    {ParamsErr, SelectErr} \cup {RowsOf(items) : items \in SeqsUpTo(SelectItems, MaxRows)}

OneRow(v) == RowsOf(<<RowItem(<<v>>)>>)
Store(r1, r2) == [s \in {"s1", "s2"} |-> IF s = "s1" THEN r1 ELSE r2]

InitCommon ==
    /\ arg = NoCall
    /\ result = Unset
    /\ log = <<>>

InitPlainScope ==
    /\ context \in {<<>>, <<OuterFrame>>}
    /\ rows = {RowFrame}
    /\ chains = {<<JoinFrame>>}

(* Equality of Parsed values: both operands of Equal / NotEqual in each    *)
(* of the three representations, over all scalars.                         *)
EqOperands == {Base(Literal(l)) : l \in Literals} \cup {Col("a"), Col("b"), Sel("s1"), Sel("s2")}
EqClauses ==
    {ComparisonOp(op, l, r) : op \in {"Equal", "NotEqual"}, l \in EqOperands, r \in EqOperands}

InitEq ==
    /\ InitCommon
    /\ where_clause \in EqClauses
    /\ storage \in {Store(OneRow(v), OneRow(w)) : v \in Values, w \in Values}
    /\ context = <<>>
    /\ \E v \in Values : rows = {Frame("t", <<"a", "b">>, <<v, Str(1)>>)}
    /\ chains = {<<JoinFrame>>}

(* Node shapes: every node kind and operator over operands of every kind.  *)
ShapeOperands ==
    {Lit(1), Col("a"), Col("z"), Sel("s1"), Base(LiteralList(<<Integer(1)>>)), Arithmetic,
     ComparisonOp("Equal", Lit(1), Lit(1)), NegationOp(ComparisonOp("Equal", Lit(1), Lit(2)))}
ShapeClauses ==
    {ComparisonOp(op, l, r) : op \in Operators, l \in ShapeOperands, r \in ShapeOperands}
        \cup {LogicalOp(op, l, r) : op \in Operators, l \in ShapeOperands, r \in ShapeOperands}
        \cup {NegationOp(e) : e \in ShapeOperands}
        \cup {Bracketed(e) : e \in ShapeOperands}
        \cup ShapeOperands
        \cup {None}

InitShape ==
    /\ InitCommon
    /\ InitPlainScope
    /\ where_clause \in ShapeClauses
    /\ storage = Store(OneRow(I64(1)), SelectErr)

(* Nested SELECTs and literal lists.  Statement s1 yields every bounded    *)
(* result, as the haystack of In and as a scalar operand; the literal      *)
(* lists are all the bounded ones.                                         *)
Needles == {Base(Literal(l)) : l \in Literals} \cup {Col("a"), Col("z"), Sel("s2")}
ScalarOperands == {Lit(1), Col("a"), Sel("s2")}
SelectClauses ==
    {ComparisonOp("In", n, Sel("s1")) : n \in Needles}
        \cup {ComparisonOp("In", Sel("s1"), h) : h \in ScalarOperands}
        \cup {ComparisonOp(op, Sel("s1"), r) : op \in {"Equal", "NotEqual"}, r \in ScalarOperands}
        \cup {ComparisonOp(op, l, Sel("s1")) : op \in {"Equal", "NotEqual"}, l \in ScalarOperands}
ListClauses ==
    {ComparisonOp("In", n, Base(LiteralList(ls))) :
        n \in Needles, ls \in SeqsUpTo(Literals, MaxList)}

InitSubquery ==
    /\ InitCommon
    /\ \/ /\ where_clause \in SelectClauses
          /\ \E r1 \in StatementResults, r2 \in {OneRow(I64(1)), ParamsErr} :
                storage = Store(r1, r2)
       \/ /\ where_clause \in ListClauses
          /\ \E r2 \in {OneRow(I64(1)), OneRow(Str(1)), RowsOf(<<>>)} :
                storage = Store(SelectErr, r2)
    /\ context = <<OuterFrame>>
    /\ rows = {RowFrame}
    /\ chains = {<<JoinFrame>>}

(* Scoping: every frame carries one value in all its columns, the outer    *)
(* frame 1, the row being checked 2, the k-th joined frame 2 + k, so the    *)
(* value a column resolves to tells which frame it was taken from.         *)
ColumnLists == {<<"a">>, <<"b">>, <<"a", "b">>}
FrameAt(table, columns, k) == Frame(table, columns, [i \in 1..Len(columns) |-> I64(k)])
JoinChains ==
    {[k \in 1..Len(cs) |-> FrameAt("j", cs[k], 2 + k)] :
        cs \in SeqsUpTo(ColumnLists, MaxJoin) \ {<<>>}}
ScopeClauses ==
    {ComparisonOp("Equal", Col(c), Lit(n)) : c \in {"a", "b"}, n \in 1..(MaxJoin + 2)}

InitScope ==
    /\ InitCommon
    /\ where_clause \in ScopeClauses \cup {ComparisonOp("In", Lit(1), Sel("s1")), None}
    /\ storage = Store(OneRow(I64(1)), SelectErr)
    /\ context \in {<<>>} \cup {<<FrameAt("o", cs, 1)>> : cs \in ColumnLists}
    /\ \E cs \in ColumnLists : rows = {FrameAt("t", cs, 2)}
    /\ \E bc \in JoinChains : chains = {bc}

(* Logical structure: And / Or / Negation / Bracketed over operands that   *)
(* are true, false, or fail, with and without nested SELECTs in them.      *)
LogicOperands ==
    {ComparisonOp("Equal", Lit(1), Lit(1)),
     ComparisonOp("Equal", Lit(1), Lit(2)),
     ComparisonOp("Equal", Col("z"), Lit(1)),
     ComparisonOp("Equal", Sel("s1"), Lit(1)),
     ComparisonOp("Equal", Sel("s1"), Sel("s2")),
     ComparisonOp("In", Col("a"), Sel("s2")),
     Arithmetic}
LogicTrees == {LogicalOp(op, l, r) : op \in {"And", "Or"}, l \in LogicOperands, r \in LogicOperands}
LogicWrapped ==
    {NegationOp(e) : e \in LogicOperands \cup LogicTrees}
        \cup {Bracketed(e) : e \in LogicOperands \cup LogicTrees}
        \cup {NegationOp(NegationOp(e)) : e \in LogicOperands}
LogicNested ==
    {LogicalOp(op, l, r) : op \in {"And", "Or"},
        l \in {NegationOp(ComparisonOp("Equal", Sel("s1"), Lit(1))),
               LogicalOp("Or", ComparisonOp("Equal", Lit(1), Lit(2)), ComparisonOp("In", Col("a"), Sel("s2")))},
        r \in LogicOperands}
LogicClauses == LogicOperands \cup LogicTrees \cup LogicWrapped \cup LogicNested

InitLogic ==
    /\ InitCommon
    /\ InitPlainScope
    /\ where_clause \in LogicClauses
    /\ \E r1 \in {OneRow(I64(1)), RowsOf(<<>>), SelectErr, RowsOf(<<ErrItem>>)},
          r2 \in {OneRow(I64(1)), RowsOf(<<RowItem(<<I64(2)>>), RowItem(<<I64(1)>>)>>), ParamsErr} :
          storage = Store(r1, r2)

Init == InitEq \/ InitShape \/ InitSubquery \/ InitScope \/ InitLogic

Spec == Init /\ [][Next]_vars
SpecEq == InitEq /\ [][Next]_vars
SpecShape == InitShape /\ [][Next]_vars
SpecSubquery == InitSubquery /\ [][Next]_vars
SpecScope == InitScope /\ [][Next]_vars
SpecLogic == InitLogic /\ [][Next]_vars

(***************************************************************************)
(* Vocabulary of the properties.                                           *)
(***************************************************************************)
Called == arg.kind # "none"
Evaluated == Called /\ where_clause # None
\* The scope chain check_expr was entered with.
Scope == log[1].ctx
IsTree(e) == e.kind \in {"ComparisonOp", "LogicalOp"}
IsBase(e, b) == e.kind = "Base" /\ e.base.b = b
Outcome(r) == [ok |-> r.ok, v |-> r.v, e |-> r.e]
IsPrefix(p, q) == Len(p) <= Len(q) /\ SubSeq(q, 1, Len(p)) = p
Indices(op, path) == {i \in 1..Len(log) : log[i].op = op /\ log[i].path = path}
StoreOps == {"params", "select", "row"}
IsStoreEvent(ev) == ev.op \in StoreOps
Range(f) == {f[i] : i \in DOMAIN f}
Max(S) == CHOOSE i \in S : \A j \in S : i >= j
Reverse(q) == [i \in 1..Len(q) |-> q[Len(q) + 1 - i]]

RECURSIVE SubAt(_, _)
\* The node of expression e at path p.
SubAt(e, p) ==
    IF p = <<>> THEN e
    ELSE SubAt(CASE Head(p) = "left" -> e.left
                 [] Head(p) = "right" -> e.right
                 [] Head(p) = "inner" -> e.inner, Tail(p))

\* The paths of the nodes check_expr was entered for.
CheckedPaths == {log[i].path : i \in {j \in 1..Len(log) : log[j].op = "check"}}

(***************************************************************************)
(* C1: And / Or never short-circuit on the left operand's boolean.  For    *)
(* every And / Or node that is visited and whose left operand evaluates to *)
(* a boolean, the right operand is evaluated too, all its events (nested   *)
(* SELECTs included) following those of the left operand; and at the top   *)
(* node the outcome is the right operand's error when it fails, the        *)
(* boolean combination otherwise.                                          *)
(***************************************************************************)
C1_NoShortCircuit ==
    Evaluated =>
        /\ \A p \in CheckedPaths :
              LET node == SubAt(where_clause, p)
              IN (IsTree(node) /\ node.operator \in {"And", "Or"}) =>
                    LET l == CheckExpr(storage, Scope, node.left, Append(p, "left"))
                        r == CheckExpr(storage, Scope, node.right, Append(p, "right"))
                    IN l.ok =>
                          \E i \in 1..Len(log) :
                              /\ log[i] = CheckEvent(p, Scope)
                              /\ i + Len(l.log) + Len(r.log) <= Len(log)
                              /\ SubSeq(log, i + 1, i + Len(l.log) + Len(r.log)) = l.log \o r.log
        /\ (IsTree(where_clause) /\ where_clause.operator \in {"And", "Or"}) =>
              LET l == CheckExpr(storage, Scope, where_clause.left, <<"left">>)
                  r == CheckExpr(storage, Scope, where_clause.right, <<"right">>)
              IN l.ok =>
                    /\ ~r.ok => result = Outcome(r)
                    /\ r.ok => /\ result.ok
                               /\ result.v = IF where_clause.operator = "And"
                                             THEN l.v /\ r.v ELSE l.v \/ r.v

\* `false AND E` where E fails inside its nested SELECT: E's error is returned.
C1_Witness ==
    /\ Evaluated
    /\ where_clause.kind = "LogicalOp"
    /\ where_clause.operator = "And"
    /\ where_clause.left = ComparisonOp("Equal", Lit(1), Lit(2))
    /\ ~result.ok
    /\ result.e.kind = "SelectError"
    /\ \E i \in 1..Len(log) : log[i].op = "select" /\ IsPrefix(<<"right">>, log[i].path)

(***************************************************************************)
(* C8: Negation(P) yields the boolean inverse of P's boolean, and P's      *)
(* error unchanged when P fails; hence Negation(Negation(P)) yields P's    *)
(* outcome.                                                                *)
(***************************************************************************)
C8_NegationInverts ==
    (Evaluated /\ where_clause.kind = "NegationOp") =>
        LET P == where_clause.inner
            p == CheckExpr(storage, Scope, P, <<>>)
        IN /\ p.ok => result.ok /\ result.v = ~p.v
           /\ ~p.ok => ~result.ok /\ result.e = p.e
           /\ P.kind = "NegationOp" =>
                 result = Outcome(CheckExpr(storage, Scope, P.inner, <<>>))

\* NOT (s1's first value = 1) where it is: the inner true becomes false.
C8_Witness ==
    /\ Evaluated
    /\ where_clause = NegationOp(ComparisonOp("Equal", Sel("s1"), Lit(1)))
    /\ storage["s1"] = OneRow(I64(1))
    /\ result.ok
    /\ ~result.v

(***************************************************************************)
(* C10: a failure ends the evaluation.  When the call fails, the log holds *)
(* exactly one failure, it is the log's last event and it is the error     *)
(* returned; when the call succeeds the log holds none.  Operands are      *)
(* processed left before right; when the left operand of the top node      *)
(* fails on its own, its error is the result and nothing of the right      *)
(* operand is parsed, checked or executed.  No node is entered twice and   *)
(* no nested SELECT is executed twice for one node.                        *)
(***************************************************************************)
Fails == {i \in 1..Len(log) : log[i].op = "fail"}
LeftAlone ==
    IF where_clause.operator \in {"And", "Or"}
    THEN CheckExpr(storage, Scope, where_clause.left, <<"left">>)
    ELSE ParseExpr(storage, Scope, where_clause.left, <<"left">>)

C10_FirstFailureEnds ==
    Evaluated =>
        /\ result.ok => Fails = {}
        /\ ~result.ok => /\ Fails = {Len(log)}
                         /\ log[Len(log)].err = result.e
        /\ \A i \in 1..Len(log) : \A j \in 1..Len(log) :
              \A q \in {SubSeq(log[i].path, 1, k) : k \in 0..Len(log[i].path)} :
                  (/\ IsPrefix(Append(q, "right"), log[i].path)
                   /\ IsPrefix(Append(q, "left"), log[j].path)) => j < i
        /\ \A i \in 1..Len(log) :
              log[i].op \in {"check", "parse", "parse_in", "params", "select"} =>
                  Cardinality(Indices(log[i].op, log[i].path)) = 1
        /\ (IsTree(where_clause) /\ where_clause.operator \in {"Equal", "NotEqual", "And", "Or", "In"}) =>
              (~LeftAlone.ok =>
                  /\ result = Outcome(LeftAlone)
                  /\ \A i \in 1..Len(log) : ~IsPrefix(<<"right">>, log[i].path))

\* s1 = s2 where executing s1 fails: s2 is never executed.
C10_Witness ==
    /\ Evaluated
    /\ where_clause = ComparisonOp("Equal", Sel("s1"), Sel("s2"))
    /\ storage["s1"] = SelectErr
    /\ result = [ok |-> FALSE, v |-> FALSE, e |-> StoreError("SelectError", "s1", 0)]

(***************************************************************************)
(* C3: needle IN (nested SELECT).  Parsing the operands does not touch the *)
(* SELECT: it is executed after both operands are parsed, with the scope   *)
(* of the evaluation as its outer scope.  Its rows are pulled in order up  *)
(* to and including the first row that fails (row error, or no first       *)
(* column) or whose first column equals the needle; the outcome is true on *)
(* such a match, that row's error on such a failure, false when the rows   *)
(* run out; no later row is pulled.                                        *)
(***************************************************************************)
InSelect ==
    /\ Evaluated
    /\ IsTree(where_clause)
    /\ where_clause.operator = "In"
    /\ IsBase(where_clause.right, "NestedSelect")

Needle == ParseExpr(storage, Scope, where_clause.left, <<"left">>)
Haystack == storage[where_clause.right.base.statement]

\* Whether the item decides the scan for the parsed needle n.
Decides(item, n) ==
    \/ item.t = "Err"
    \/ item.row = <<>>
    \/ ParsedEq(OwnedValue(item.row[1]), n)

C3_InSelectLazyScan ==
    (InSelect /\ Needle.ok) =>
        LET stmt == where_clause.right.base.statement
            n == Len(Needle.log)
            items == Haystack.rows
            deciding == {i \in 1..Len(items) : Decides(items[i], Needle.v)}
            pulled == IF deciding = {} THEN Len(items) ELSE Min(deciding)
        IN /\ SubSeq(log, 1, n + 2) = <<CheckEvent(<<>>, Scope)>> \o Needle.log \o <<ParseInEvent(<<"right">>)>>
           /\ log[n + 3] = ParamsEvent(<<"right">>, stmt)
           /\ Haystack.t # "ParamsErr" => log[n + 4] = SelectEvent(<<"right">>, stmt, Scope)
           /\ Haystack.t = "Rows" =>
                 /\ SubSeq(log, n + 5, n + 4 + pulled) = [i \in 1..pulled |-> RowEvent(<<"right">>, stmt, i)]
                 /\ \A i \in n + 5 + pulled .. Len(log) : log[i].op = "fail"
                 /\ deciding = {} => result = [ok |-> TRUE, v |-> FALSE, e |-> NoError]
                 /\ deciding # {} =>
                       LET d == items[Min(deciding)]
                       IN CASE d.t = "Err" ->
                                 result = [ok |-> FALSE, v |-> FALSE, e |-> StoreError("RowError", stmt, Min(deciding))]
                            [] d.t # "Err" /\ d.row = <<>> ->
                                 result = [ok |-> FALSE, v |-> FALSE, e |-> StoreError("EmptyRow", stmt, Min(deciding))]
                            [] OTHER -> result = [ok |-> TRUE, v |-> TRUE, e |-> NoError]

\* The first row matches and the second would fail: true, one row pulled.
C3_Witness ==
    /\ InSelect
    /\ Needle.ok
    /\ Haystack.t = "Rows"
    /\ Len(Haystack.rows) >= 2
    /\ Haystack.rows[2] = ErrItem
    /\ result.ok
    /\ result.v
    /\ Cardinality({i \in 1..Len(log) : log[i].op = "row" /\ log[i].path = <<"right">>}) = 1

(***************************************************************************)
(* C4: a nested SELECT as a scalar operand (either operand of Equal /      *)
(* NotEqual, the left operand of In) is executed with the scope of the     *)
(* evaluation as its outer scope and stands for the first column of its    *)
(* first row; without rows the evaluation fails with                       *)
(* NestedSelectRowNotFound; at most its first row is pulled, and the       *)
(* outcome is the one obtained when the SELECT yields its first row only.  *)
(***************************************************************************)
ScalarSides ==
    {side \in {"left", "right"} :
        /\ IsTree(where_clause)
        /\ \/ where_clause.operator \in {"Equal", "NotEqual"}
           \/ where_clause.operator = "In" /\ side = "left"
        /\ IsBase(IF side = "left" THEN where_clause.left ELSE where_clause.right, "NestedSelect")
        /\ side = "right" => ParseExpr(storage, Scope, where_clause.left, <<"left">>).ok}

Operand(side) == IF side = "left" THEN where_clause.left ELSE where_clause.right

\* The store in which statement stmt yields its first row only.
FirstRowOnly(store, stmt) ==
    [store EXCEPT ![stmt] =
        IF @.t = "Rows" /\ @.rows # <<>> THEN RowsOf(<<@.rows[1]>>) ELSE @]

C4_ScalarSelectFirstRow ==
    Evaluated =>
        \A side \in ScalarSides :
            LET stmt == Operand(side).base.statement
                res == storage[stmt]
                other == Operand(IF side = "left" THEN "right" ELSE "left")
            IN /\ res.t # "ParamsErr" =>
                     \E i \in 1..Len(log) : log[i] = SelectEvent(<<side>>, stmt, Scope)
               /\ \A i \in 1..Len(log) :
                     (log[i].op = "row" /\ log[i].path = <<side>>) => log[i].idx = 1
               /\ (res.t = "Rows" /\ res.rows = <<>>) =>
                     result = [ok |-> FALSE, v |-> FALSE, e |-> NestedSelectRowNotFound]
               /\ result = Outcome(CheckExpr(FirstRowOnly(storage, stmt), Scope, where_clause, <<>>))
               /\ (/\ res.t = "Rows" /\ res.rows # <<>>
                   /\ res.rows[1].t = "Row" /\ res.rows[1].row # <<>>
                   /\ where_clause.operator \in {"Equal", "NotEqual"}
                   /\ other.kind = "Base" /\ other.base.b = "Literal") =>
                     /\ result.ok
                     /\ result.v = ((where_clause.operator = "Equal")
                                      <=> ValueEqLiteral(res.rows[1].row[1], other.base.literal))

\* s1 = 1 where s1 yields (1, "1") and then a failing row: true, the rest unread.
C4_Witness ==
    /\ Evaluated
    /\ where_clause = ComparisonOp("Equal", Sel("s1"), Lit(1))
    /\ storage["s1"] = RowsOf(<<RowItem(<<I64(1), Str(1)>>), ErrItem>>)
    /\ result.ok
    /\ result.v

(***************************************************************************)
(* C9: needle IN (literal list), the needle parsed successfully: true      *)
(* exactly when some literal of the list equals the needle, false for the  *)
(* empty list, never an error, and no call to the Store beyond those made  *)
(* to parse the needle.                                                    *)
(***************************************************************************)
InList ==
    /\ Evaluated
    /\ IsTree(where_clause)
    /\ where_clause.operator = "In"
    /\ IsBase(where_clause.right, "LiteralList")

C9_InLiteralList ==
    (InList /\ Needle.ok) =>
        LET literals == where_clause.right.base.literals
        IN /\ result.ok
           /\ result.v <=> \E i \in 1..Len(literals) : ParsedEq(Needle.v, LiteralRef(literals[i]))
           /\ literals = <<>> => ~result.v
           /\ log = <<CheckEvent(<<>>, Scope)>> \o Needle.log \o <<ParseInEvent(<<"right">>)>>
           /\ SelectSeq(log, IsStoreEvent) = SelectSeq(Needle.log, IsStoreEvent)

\* Column a (stored 1) IN (2, 1): only the last literal matches.
C9_Witness ==
    /\ InList
    /\ where_clause.left = Col("a")
    /\ where_clause.right.base.literals = <<Integer(2), Integer(1)>>
    /\ result.ok
    /\ result.v

(***************************************************************************)
(* C5: equality of Parsed values is symmetric and depends only on the      *)
(* scalars.  For the two operands a, b an Equal / NotEqual node parsed:    *)
(* (a == b) = (b == a), the node's outcome is the same with the operands   *)
(* exchanged, and replacing a referenced Value by an owned one (or back)   *)
(* on either side does not change the comparison.                          *)
(***************************************************************************)
EqNode ==
    /\ Evaluated
    /\ IsTree(where_clause)
    /\ where_clause.operator \in {"Equal", "NotEqual"}

Operands == ZipParse(storage, Scope, where_clause, <<>>)

\* The Parsed values with the scalar of p: a Value owned or referenced.
SameScalar(p) ==
    IF p.tag = "LiteralRef" THEN {p} ELSE {ValueRef(p.x), OwnedValue(p.x)}

C5_ParsedEqSymmetric ==
    (EqNode /\ Operands.ok) =>
        LET a == Operands.v[1]
            b == Operands.v[2]
        IN /\ ParsedEq(a, b) = ParsedEq(b, a)
           /\ result.ok
           /\ result.v = ((where_clause.operator = "Equal") <=> ParsedEq(b, a))
           /\ \A a2 \in SameScalar(a) : \A b2 \in SameScalar(b) :
                 /\ ParsedEq(a2, b2) = ParsedEq(a, b)
                 /\ ParsedEq(b2, a2) = ParsedEq(a, b)

\* A literal on the left equal to the owned value of a nested SELECT on the right.
C5_Witness ==
    /\ EqNode
    /\ Operands.ok
    /\ Operands.v[1].tag = "LiteralRef"
    /\ Operands.v[2].tag = "Value"
    /\ where_clause.operator = "Equal"
    /\ result.ok
    /\ result.v

(***************************************************************************)
(* C6: in Filter::check the frame of the row being checked is innermost    *)
(* and the filter's outer context is its parent.  A column resolves to the *)
(* value of the innermost frame whose columns hold its name; when no frame *)
(* holds it the predicate fails with FieldNotFound.                        *)
(***************************************************************************)
FieldEqLiteral ==
    /\ Evaluated
    /\ IsTree(where_clause)
    /\ where_clause.operator = "Equal"
    /\ IsBase(where_clause.left, "Field")
    /\ IsBase(where_clause.right, "Literal")

Holders(chain, column) == {k \in 1..Len(chain) : column \in Range(chain[k].columns)}
ValueIn(frame, column) ==
    frame.row[Min({i \in 1..Len(frame.columns) : frame.columns[i] = column})]

\* The outcome of `column = literal` when the column is looked up in `chain`,
\* whose first frame is searched first.
Resolved(chain) ==
    LET column == where_clause.left.base.column
        holders == Holders(chain, column)
    IN IF holders = {} THEN [ok |-> FALSE, v |-> FALSE, e |-> FieldNotFound]
       ELSE [ok |-> TRUE, e |-> NoError,
             v |-> ValueEqLiteral(ValueIn(chain[Min(holders)], column),
                                  where_clause.right.base.literal)]

C6_FilterCheckScope ==
    (Evaluated /\ arg.kind = "Filter::check") =>
        /\ Scope = arg.frame \o context
        /\ FieldEqLiteral => result = Resolved(arg.frame \o context)

\* The column is in the row's frame and in the outer frame: the row's value wins.
C6_Witness ==
    /\ FieldEqLiteral
    /\ arg.kind = "Filter::check"
    /\ context # <<>>
    /\ Holders(arg.frame \o context, where_clause.left.base.column) = {1, 2}
    /\ ValueIn(arg.frame[1], where_clause.left.base.column)
          # ValueIn(context[1], where_clause.left.base.column)
    /\ result.ok
    /\ result.v

(***************************************************************************)
(* C7: folding the join chain j1 -> ... -> jn over the outer scope O       *)
(* (Filter.context for check_blended; the row's frame on top of            *)
(* Filter.context for BlendedFilter::check) gives the scope jn, ..., j1, O *)
(* and the predicate is evaluated once, against it.  A column resolves to  *)
(* the frame furthest along the chain that holds it, and to O only when no *)
(* joined frame holds it.                                                  *)
(***************************************************************************)
Blended == Called /\ arg.blend # <<>>
OuterScope == arg.frame \o context

C7_JoinChainFolded ==
    (Blended /\ Evaluated) =>
        /\ Scope = Reverse(arg.blend) \o OuterScope
        /\ Indices("check", <<>>) = {1}
        /\ \A i \in 1..Len(log) : log[i].op = "check" => log[i].ctx = Scope
        /\ FieldEqLiteral =>
              LET column == where_clause.left.base.column
                  joined == Holders(arg.blend, column)
              IN IF joined # {}
                 THEN /\ result.ok
                      /\ result.v = ValueEqLiteral(ValueIn(arg.blend[Max(joined)], column),
                                                   where_clause.right.base.literal)
                 ELSE result = Resolved(OuterScope)

\* Every joined frame and the row's frame hold the column: the last joined frame wins.
C7_Witness ==
    /\ Blended
    /\ FieldEqLiteral
    /\ arg.kind = "BlendedFilter::check"
    /\ Len(arg.blend) >= 2
    /\ Holders(arg.blend \o OuterScope, where_clause.left.base.column) = 1..(Len(arg.blend) + 1)
    /\ where_clause.right.base.literal = Integer(Len(arg.blend) + 2)
    /\ result.ok
    /\ result.v

(***************************************************************************)
(* C2: the node shapes check_expr evaluates.                               *)
(*                                                                         *)
(* As claimed (C2_ShapesAsClaimed): a boolean is returned only for a       *)
(* comparison node with operator Equal / NotEqual / In and base-term       *)
(* operands, a logical node with operator And / Or, a Negation node and a  *)
(* Bracketed node; every other shape, a comparison node carrying a logical *)
(* operator and a logical node carrying a comparison operator included,    *)
(* yields Unimplemented.                                                   *)
(*                                                                         *)
(* As the code has it (C2_EvaluableShapes): comparison and logical nodes   *)
(* are treated alike, the operator alone selecting the evaluation.  A      *)
(* boolean is returned only for a tree node of either kind with operator   *)
(* Equal / NotEqual / In and base-term operands or with operator And / Or, *)
(* a Negation node and a Bracketed node.  A tree node with any other       *)
(* operator, an Arithmetic node and a bare base term yield Unimplemented.  *)
(* A non-base operand of Equal / NotEqual / In yields Unimplemented,       *)
(* except that a failure of parsing the left operand comes first.          *)
(***************************************************************************)
FailsWith(e) == result = [ok |-> FALSE, v |-> FALSE, e |-> e]
ParsedOperators == {"Equal", "NotEqual", "In"}
CheckedOperators == {"And", "Or"}
BaseOperands == where_clause.left.kind = "Base" /\ where_clause.right.kind = "Base"

C2_ShapesAsClaimed ==
    Evaluated =>
        LET evaluable ==
                \/ /\ where_clause.kind = "ComparisonOp"
                   /\ where_clause.operator \in ParsedOperators
                   /\ BaseOperands
                \/ /\ where_clause.kind = "LogicalOp"
                   /\ where_clause.operator \in CheckedOperators
                \/ where_clause.kind \in {"NegationOp", "Bracketed"}
        IN /\ result.ok => evaluable
           /\ ~evaluable => FailsWith(Unimplemented)

C2_EvaluableShapes ==
    Evaluated =>
        LET tree == IsTree(where_clause)
            evaluable ==
                \/ tree /\ where_clause.operator \in ParsedOperators /\ BaseOperands
                \/ tree /\ where_clause.operator \in CheckedOperators
                \/ where_clause.kind \in {"NegationOp", "Bracketed"}
            left == ParseExpr(storage, Scope, where_clause.left, <<"left">>)
        IN /\ result.ok => evaluable
           /\ (tree /\ where_clause.operator \notin ParsedOperators \cup CheckedOperators) =>
                 FailsWith(Unimplemented)
           /\ where_clause.kind \in {"Arithmetic", "Base"} => FailsWith(Unimplemented)
           /\ (tree /\ where_clause.operator \in ParsedOperators /\ ~BaseOperands) =>
                 IF left.ok THEN FailsWith(Unimplemented) ELSE result = Outcome(left)
           /\ (tree /\ where_clause.operator \in ParsedOperators /\ where_clause.left.kind # "Base") =>
                 FailsWith(Unimplemented)

\* A comparison node carrying And over two comparisons is evaluated to a boolean.
C2_Witness ==
    /\ Evaluated
    /\ where_clause.kind = "ComparisonOp"
    /\ where_clause.operator = "And"
    /\ result.ok

====
